---- MODULE Spec2Model ----
(***************************************************************************)
(* Model of coordinate_translating.py: conversion between transcript and   *)
(* genomic coordinates driven by a CIGAR string.                           *)
(*                                                                         *)
(* Text is modelled as a sequence of one-character strings, so that the    *)
(* regular expression, int() and str() are computed, not assumed.          *)
(***************************************************************************)
EXTENDS Integers, Sequences, FiniteSets, TLC

\* ------------------------------------------------------------------ bounds
\* Generic CIGAR strings: every segment sequence whose lengths sum to at most MaxTotal.
MaxTotal == 4
\* Transcript starts 0..MaxStart in the walker's specification.
MaxStart == 1
\* Requested positions 0..MaxPos in the walker's specification.
MaxPos == 9

\* ------------------------------------------------------------------ text
DigitChars == <<"0", "1", "2", "3", "4", "5", "6", "7", "8", "9">>

\* The characters \d matches (ASCII).
Digits == {DigitChars[i] : i \in 1..10}

IsDigit(c) == c \in Digits

DigitValueOf == [c \in Digits |-> (CHOOSE i \in 1..10 : DigitChars[i] = c) - 1]

DigitValue(c) == DigitValueOf[c]

\* The operation codes of the pattern's character class [MXDIN].
CigarTypes == {"M", "X", "D", "I", "N"}

RECURSIVE DigitsValue(_)
\* Value of a non-empty run of decimal digits.
DigitsValue(s) ==
    IF Len(s) = 0 THEN 0
    ELSE 10 * DigitsValue(SubSeq(s, 1, Len(s) - 1)) + DigitValue(s[Len(s)])

RECURSIVE DigitRunEnd(_, _)
\* Index of the first character at or after i that is not a digit (Len(s)+1 if none):
\* where the greedy \d+ stops.
DigitRunEnd(s, i) ==
    IF i > Len(s) \/ ~IsDigit(s[i]) THEN i ELSE DigitRunEnd(s, i + 1)

RECURSIVE FindAllFrom(_, _)
\* cigar_pttn.findall scanning from index i: a match at i needs a digit at i and an
\* operation code right after the digit run; a failed attempt restarts at i + 1, a
\* match resumes after its last character.
FindAllFrom(s, i) ==
    IF i > Len(s) THEN <<>>
    ELSE IF ~IsDigit(s[i]) THEN FindAllFrom(s, i + 1)
    ELSE LET j == DigitRunEnd(s, i)
         IN IF j <= Len(s) /\ s[j] \in CigarTypes
            THEN << <<SubSeq(s, i, j - 1), s[j]>> >> \o FindAllFrom(s, j + 1)
            ELSE FindAllFrom(s, i + 1)

\* cigar_pttn.findall(cigar): the (digits, type) pairs, left to right.
cigar_pttn_findall(cigar) == FindAllFrom(cigar, 1)

\* seq[::-1]
Reversed(seq) == [i \in 1..Len(seq) |-> seq[Len(seq) + 1 - i]]

Min(a, b) == IF a <= b THEN a ELSE b

Tab == "\t"
Newline == "\n"

\* Characters str.strip() removes (those that occur in the modelled text).
Whitespace == {" ", Tab, Newline}

RECURSIVE lstrip(_)
lstrip(s) == IF Len(s) > 0 /\ s[1] \in Whitespace THEN lstrip(Tail(s)) ELSE s

RECURSIVE rstrip(_)
rstrip(s) ==
    IF Len(s) > 0 /\ s[Len(s)] \in Whitespace THEN rstrip(SubSeq(s, 1, Len(s) - 1)) ELSE s

\* s.strip()
strip(s) == rstrip(lstrip(s))

RECURSIVE split(_)
\* s.split('\t'): the pieces between tabs; a string without tabs is one piece.
split(s) ==
    IF \A i \in 1..Len(s) : s[i] # Tab THEN <<s>>
    ELSE LET i == CHOOSE k \in 1..Len(s) : s[k] = Tab /\ \A m \in 1..(k - 1) : s[m] # Tab
         IN <<SubSeq(s, 1, i - 1)>> \o split(SubSeq(s, i + 1, Len(s)))

RECURSIVE join(_)
\* '\t'.join(fields)
join(fields) ==
    IF Len(fields) = 0 THEN <<>>
    ELSE IF Len(fields) = 1 THEN fields[1]
    ELSE fields[1] \o <<Tab>> \o join(Tail(fields))

\* int(s) on text: surrounding whitespace is dropped, one sign is allowed, the rest
\* must be one or more digits; ok is FALSE where int raises ValueError.
int(s) ==
    LET t == strip(s)
        signed == Len(t) > 0 /\ t[1] \in {"+", "-"}
        body == IF signed THEN Tail(t) ELSE t
    IN IF Len(body) >= 1 /\ \A i \in 1..Len(body) : IsDigit(body[i])
       THEN [ok |-> TRUE,
             value |-> IF signed /\ t[1] = "-" THEN 0 - DigitsValue(body)
                       ELSE DigitsValue(body)]
       ELSE [ok |-> FALSE, value |-> 0]

\* ------------------------------------------------------------------ walker
\* The two orientation words.
Forward == <<"f", "o", "r", "w", "a", "r", "d">>
Reverse == <<"r", "e", "v", "e", "r", "s", "e">>

parsed_cigar_unreversed(transcript_info) == cigar_pttn_findall(transcript_info.cigar)

\* The order in which the segments are walked.
parsed_cigar(transcript_info) ==
    LET found == cigar_pttn_findall(transcript_info.cigar)
    IN IF transcript_info.orientation = Reverse THEN Reversed(found) ELSE found

\* Position in the starting coordinate system.
current_pos_of_interest(genomic_pos, transcript_pos, start_from_genomic) ==
    IF start_from_genomic THEN genomic_pos ELSE transcript_pos

BreakCondition_eq(current, requested_pos) == current = requested_pos

BreakCondition_gt(current, requested_pos) == current > requested_pos

\* The loop's exit test.
BreakCondition(current, requested_pos) == current >= requested_pos

bases_into_cigar_full(segment_length, requested_pos, current) == segment_length

\* Bases consumed of a match or mismatch segment.
bases_into_cigar(segment_length, requested_pos, current) ==
    Min(segment_length, requested_pos - current)

DeletionStep_partial(pos, segment_length, requested_pos, start_from_genomic) ==
    [genomic_pos |-> pos.genomic_pos +
        (IF start_from_genomic
         THEN Min(segment_length, requested_pos - pos.genomic_pos)
         ELSE segment_length),
     transcript_pos |-> pos.transcript_pos]

\* 'D' or 'N': the genomic position moves by the whole segment.
DeletionStep(pos, segment_length, requested_pos, start_from_genomic) ==
    [genomic_pos |-> pos.genomic_pos + segment_length,
     transcript_pos |-> pos.transcript_pos]

InsertionStep_both(pos, segment_length) ==
    [genomic_pos |-> pos.genomic_pos + segment_length,
     transcript_pos |-> pos.transcript_pos + segment_length]

\* 'I': the transcript position moves by the whole segment.
InsertionStep(pos, segment_length) ==
    [genomic_pos |-> pos.genomic_pos,
     transcript_pos |-> pos.transcript_pos + segment_length]

\* 'M' or 'X': both positions move by the bases consumed.
MatchStep(pos, segment_length, requested_pos, start_from_genomic) ==
    LET current == current_pos_of_interest(pos.genomic_pos, pos.transcript_pos,
                                           start_from_genomic)
        n == bases_into_cigar(segment_length, requested_pos, current)
    IN [genomic_pos |-> pos.genomic_pos + n,
        transcript_pos |-> pos.transcript_pos + n]

\* One pass of the loop body after the exit test.
SegmentStep(pos, segment, requested_pos, start_from_genomic) ==
    LET segment_length == DigitsValue(segment[1])
        cigar_type == segment[2]
    IN IF cigar_type \in {"M", "X"}
         THEN MatchStep(pos, segment_length, requested_pos, start_from_genomic)
       ELSE IF cigar_type \in {"D", "N"}
         THEN DeletionStep(pos, segment_length, requested_pos, start_from_genomic)
       ELSE IF cigar_type = "I"
         THEN InsertionStep(pos, segment_length)
       ELSE pos

RECURSIVE WalkFrom(_, _, _, _, _)
\* The for loop from segment i on: positions when the loop ends or breaks.
WalkFrom(segments, i, pos, requested_pos, start_from_genomic) ==
    IF i > Len(segments) THEN pos
    ELSE IF BreakCondition(current_pos_of_interest(pos.genomic_pos, pos.transcript_pos,
                                                   start_from_genomic),
                           requested_pos)
         THEN pos
    ELSE WalkFrom(segments, i + 1,
                  SegmentStep(pos, segments[i], requested_pos, start_from_genomic),
                  requested_pos, start_from_genomic)

final_pos_of_interest_swapped(pos, start_from_genomic) ==
    IF start_from_genomic THEN pos.genomic_pos ELSE pos.transcript_pos

\* The position in the opposite coordinate system.
final_pos_of_interest(pos, start_from_genomic) ==
    IF start_from_genomic THEN pos.transcript_pos ELSE pos.genomic_pos

\* The whole function: its two position variables when the loop is left, and the
\* value it returns.
get_converted_position(transcript_info, requested_pos, start_from_genomic) ==
    LET pos == WalkFrom(parsed_cigar(transcript_info), 1,
                        [genomic_pos |-> transcript_info.start, transcript_pos |-> 0],
                        requested_pos, start_from_genomic)
    IN [genomic_pos |-> pos.genomic_pos,
        transcript_pos |-> pos.transcript_pos,
        returned |-> final_pos_of_interest(pos, start_from_genomic)]

\* ------------------------------------------------------------------ walker inputs
RECURSIVE NatToStr(_)
\* Decimal digits of a natural number.
NatToStr(n) ==
    IF n < 10 THEN <<DigitChars[n + 1]>>
    ELSE NatToStr(n \div 10) \o <<DigitChars[(n % 10) + 1]>>

\* str(n) for an integer.
IntToStr(n) == IF n < 0 THEN <<"-">> \o NatToStr(0 - n) ELSE NatToStr(n)

RECURSIVE SegmentSeqs(_)
\* Every sequence of (length, type) segments, lengths at least 1, summing to at most n.
SegmentSeqs(n) ==
    {<<>>} \cup
    UNION {{<<<<len, op>>>> \o rest : rest \in SegmentSeqs(n - len)} :
              len \in 1..n, op \in CigarTypes}

RECURSIVE CigarText(_)
\* The CIGAR string that spells a segment sequence.
CigarText(segs) ==
    IF Len(segs) = 0 THEN <<>>
    ELSE NatToStr(segs[1][1]) \o <<segs[1][2]>> \o CigarText(Tail(segs))

\* The strings named in the documentation, and two with characters the pattern skips.
ExampleCigars ==
    {<<"4", "M", "2", "D", "6", "M">>,
     <<"5", "M", "3", "I", "5", "M">>,
     <<"5", "M", "3", "D", "5", "M">>,
     <<"5", "M", "3", "N", "5", "M">>,
     <<"1", "0", "M">>,
     <<"2", "M", "0", "X", "3", "D">>,
     <<"3", "M", "z", "2", "1", "D", "4">>,
     <<"S", "2", "X", "2", " ", "I", "0", "3", "M">>}

WalkerCigars == {CigarText(segs) : segs \in SegmentSeqs(MaxTotal)} \cup ExampleCigars

Chrom1 == <<"c", "h", "r", "1">>

WalkerTranscripts ==
    [chrom : {Chrom1}, start : 0..MaxStart, cigar : WalkerCigars,
     orientation : {Forward, Reverse}]

\* ------------------------------------------------------------------ registry
\* transcripts[key] = value
Put(dict, key, value) ==
    [k \in DOMAIN dict \cup {key} |-> IF k = key THEN value ELSE dict[k]]

StartIsInteger_always(start) == TRUE

\* The try / except around int(start): FALSE where ValueError is raised.
StartIsInteger(start) == int(start).ok

IsDuplicate_never(transcript_name, dict) == FALSE

\* transcript_name in transcripts
IsDuplicate(transcript_name, dict) == transcript_name \in DOMAIN dict

\* One pass of get_transcripts_dict's loop: the dictionary after the row, or the error
\* raised by it.
get_transcripts_dict_row(dict, row) ==
    LET cols == split(strip(row))
    IN IF Len(cols) \notin {4, 5}
         THEN [transcripts |-> dict, error |-> "MalformedTranscriptRow"]
       ELSE
         LET transcript_name == cols[1]
             chrom == cols[2]
             start == cols[3]
             cigar == cols[4]
             orientation == IF Len(cols) = 4 THEN Forward ELSE cols[5]
         IN IF Len(cols) = 5 /\ orientation \notin {Forward, Reverse}
              THEN [transcripts |-> dict, error |-> "InvalidOrientation"]
            ELSE IF ~StartIsInteger(start)
              THEN [transcripts |-> dict, error |-> "InvalidStart"]
            ELSE IF IsDuplicate(transcript_name, dict)
              THEN [transcripts |-> dict, error |-> "DuplicateTranscript"]
            ELSE [transcripts |->
                      Put(dict, transcript_name,
                          [chrom |-> chrom, start |-> int(start).value,
                           cigar |-> cigar, orientation |-> orientation]),
                  error |-> "none"]

RECURSIVE LoadFrom(_, _, _)
\* The loop over the rows from row i on.
LoadFrom(rows, i, dict) ==
    IF i > Len(rows) THEN [transcripts |-> dict, error |-> "none"]
    ELSE LET r == get_transcripts_dict_row(dict, rows[i])
         IN IF r.error # "none" THEN r ELSE LoadFrom(rows, i + 1, r.transcripts)

\* The whole function on a file's rows.
get_transcripts_dict(rows) == LoadFrom(rows, 1, <<>>)

\* ------------------------------------------------------------------ driver
Raise_skipped(kind) == [error |-> "none", written |-> <<>>]

\* raise: the row writes nothing and the run ends with the error.
Raise(kind) == [error |-> kind, written |-> <<>>]

\* One pass of main's loop over the queries: the line written, or the error raised.
main_row(dict, row, from_genomic) ==
    LET cols == split(strip(row))
    IN IF Len(cols) # 2 THEN Raise("MalformedQueryRow")
       ELSE IF ~int(cols[2]).ok THEN Raise("InvalidRequestedPosition")
       ELSE IF cols[1] \notin DOMAIN dict THEN Raise("UnknownTranscript")
       ELSE LET info == dict[cols[1]]
                converted == get_converted_position(info, int(cols[2]).value,
                                                    from_genomic).returned
            IN [error |-> "none",
                written |-> <<join(cols \o <<info.chrom, IntToStr(converted)>>)
                              \o <<Newline>>>>]

\* ------------------------------------------------------------------ file inputs
\* Rows read from the transcripts file in the registry's specification.
MaxRows == 3
\* Rows read from the queries file in the driver's specification.
MaxQueries == 3

\* A line of a file: the fields joined by tabs, and the line end.
Line(fields) == join(fields) \o <<Newline>>

NameA == <<"a">>
NameB == <<"b">>
Chrom2 == <<"c", "h", "r", "2">>
Cigar2M == <<"2", "M">>

LoadStarts == {<<"3">>, <<"-", "2">>, <<" ", "5">>, <<"x">>}

FourFields ==
    {<<n, c, s, Cigar2M>> : n \in {NameA, NameB}, c \in {Chrom1, Chrom2}, s \in LoadStarts}

TranscriptRows ==
    {Line(f) : f \in FourFields}
    \cup {Line(f \o <<o>>) : f \in FourFields, o \in {Forward, Reverse, <<"u", "p">>, <<>>}}
    \cup {Line(<<<<>>>> \o f) : f \in {<<NameA, Chrom1, <<"3">>, Cigar2M>>,
                                       <<Chrom1, <<"3">>, Cigar2M>>}}
    \cup {Line(<<>>),
          Line(<<NameA, Chrom1, <<"3">>>>),
          Line(<<NameB, Chrom1, <<"x">>>>),
          Line(<<NameA, Chrom1, <<"3">>, Cigar2M, Forward, <<"9">>>>)}

RowA == Line(<<NameA, Chrom1, <<"1">>, <<"2", "M", "1", "D", "2", "M">>>>)
RowB == Line(<<NameB, Chrom2, <<"0">>, <<"3", "M", "1", "I">>, Reverse>>)

\* Transcripts files given to main.
TranscriptFiles == {<<RowA, RowB>>, <<RowA>>, <<>>, <<RowA, RowA>>}

QueryRows ==
    {Line(<<n, q>>) : n \in {NameA, NameB},
                      q \in {<<"0">>, <<"3">>, <<"1", "2">>, <<"-", "1">>, <<"x">>}}
    \cup {Line(<<>>),
          Line(<<NameA>>),
          Line(<<NameA, <<"3">>, <<"9">>>>),
          Line(<<NameA, <<"3">>, <<>>>>),
          Line(<<<<>>, NameB, <<"2">>>>)}

\* ------------------------------------------------------------------ state
VARIABLES
    transcript_info,     \* walker: the transcript passed to get_converted_position
    start_from_genomic,  \* the direction flag
    requested_pos,       \* walker: the position passed
    genomic_pos,         \* walker: genomic_pos when the loop was left
    transcript_pos,      \* walker: transcript_pos when the loop was left
    converted_pos,       \* walker: the value returned
    walk_pc,             \* walker: "idle" before the call, "returned" after it
    transcripts,         \* the dictionary of transcripts
    rows_read,           \* registry: the rows read from the transcripts file so far
    load_pc,             \* registry: "reading", "returned" or "raised"
    load_error,          \* registry: the error raised, or "none"
    paths_exist,         \* driver: whether each input path points to a file
    transcripts_input,   \* driver: the rows of the transcripts file
    queries_read,        \* driver: the rows read from the queries file so far
    output_file,         \* driver: the lines written to the output file
    main_pc,             \* driver: "start", "querying", "done" or "raised"
    main_error           \* driver: the error raised, or "none"

walk_vars == <<transcript_info, requested_pos, genomic_pos, transcript_pos,
               converted_pos, walk_pc>>

load_vars == <<rows_read, load_pc, load_error>>

main_vars == <<paths_exist, transcripts_input, queries_read, output_file, main_pc,
               main_error>>

vars == <<walk_vars, load_vars, main_vars, start_from_genomic, transcripts>>

\* No call of get_converted_position under way.
WalkIdle ==
    /\ transcript_info = [chrom |-> Chrom1, start |-> 0, cigar |-> <<>>,
                          orientation |-> Forward]
    /\ requested_pos = 0
    /\ genomic_pos = 0
    /\ transcript_pos = 0
    /\ converted_pos = 0
    /\ walk_pc = "idle"

\* No call of get_transcripts_dict under way.
LoadIdle ==
    /\ rows_read = <<>>
    /\ load_pc = "idle"
    /\ load_error = "none"

\* No run of main under way.
MainIdle ==
    /\ paths_exist = [transcripts_input_p |-> TRUE, queries_input_p |-> TRUE]
    /\ transcripts_input = <<>>
    /\ queries_read = <<>>
    /\ output_file = <<>>
    /\ main_pc = "idle"
    /\ main_error = "none"

\* ---- get_converted_position
InitWalk ==
    /\ transcript_info \in WalkerTranscripts
    /\ start_from_genomic \in BOOLEAN
    /\ requested_pos = 0
    /\ genomic_pos = transcript_info.start
    /\ transcript_pos = 0
    /\ converted_pos = 0
    /\ walk_pc = "idle"
    /\ transcripts = <<>>
    /\ LoadIdle
    /\ MainIdle

\* One call get_converted_position(transcript_info, p, start_from_genomic).
Convert ==
    /\ walk_pc = "idle"
    /\ \E p \in 0..MaxPos :
         LET r == get_converted_position(transcript_info, p, start_from_genomic)
         IN /\ requested_pos' = p
            /\ genomic_pos' = r.genomic_pos
            /\ transcript_pos' = r.transcript_pos
            /\ converted_pos' = r.returned
            /\ walk_pc' = "returned"
            /\ UNCHANGED <<transcript_info, start_from_genomic, transcripts,
                           load_vars, main_vars>>

NextWalk == Convert

SpecWalk == InitWalk /\ [][NextWalk]_vars

\* ---- get_transcripts_dict
InitLoad ==
    /\ transcripts = <<>>
    /\ rows_read = <<>>
    /\ load_pc = "reading"
    /\ load_error = "none"
    /\ start_from_genomic = FALSE
    /\ WalkIdle
    /\ MainIdle

\* The loop reads the next row of the file.
ReadTranscriptRow ==
    /\ load_pc = "reading"
    /\ Len(rows_read) < MaxRows
    /\ \E row \in TranscriptRows :
         LET r == get_transcripts_dict_row(transcripts, row)
         IN /\ rows_read' = Append(rows_read, row)
            /\ transcripts' = r.transcripts
            /\ load_error' = r.error
            /\ load_pc' = IF r.error = "none" THEN "reading" ELSE "raised"
    /\ UNCHANGED <<walk_vars, main_vars, start_from_genomic>>

\* The file ends: the dictionary is returned.
ReturnTranscripts ==
    /\ load_pc = "reading"
    /\ load_pc' = "returned"
    /\ UNCHANGED <<transcripts, rows_read, load_error, walk_vars, main_vars,
                   start_from_genomic>>

NextLoad == ReadTranscriptRow \/ ReturnTranscripts

SpecLoad == InitLoad /\ [][NextLoad]_vars

\* ---- main
InitMain ==
    /\ paths_exist \in [transcripts_input_p : BOOLEAN, queries_input_p : BOOLEAN]
    /\ transcripts_input \in TranscriptFiles
    /\ start_from_genomic \in BOOLEAN
    /\ transcripts = <<>>
    /\ queries_read = <<>>
    /\ output_file = <<>>
    /\ main_pc = "start"
    /\ main_error = "none"
    /\ WalkIdle
    /\ LoadIdle

\* main up to its loop: the path checks, get_transcripts_dict, opening both files.
MainLoad ==
    /\ main_pc = "start"
    /\ LET r == get_transcripts_dict(transcripts_input)
           error == IF ~paths_exist.transcripts_input_p THEN "InvalidTranscriptsPath"
                    ELSE IF ~paths_exist.queries_input_p THEN "InvalidQueriesPath"
                    ELSE r.error
       IN /\ main_error' = error
          /\ main_pc' = IF error = "none" THEN "querying" ELSE "raised"
          /\ transcripts' = IF error = "none" THEN r.transcripts ELSE transcripts
    /\ output_file' = <<>>
    /\ UNCHANGED <<paths_exist, transcripts_input, queries_read, walk_vars, load_vars,
                   start_from_genomic>>

\* The loop reads the next row of the queries file.
ReadQueryRow ==
    /\ main_pc = "querying"
    /\ Len(queries_read) < MaxQueries
    /\ \E row \in QueryRows :
         LET r == main_row(transcripts, row, start_from_genomic)
         IN /\ queries_read' = Append(queries_read, row)
            /\ output_file' = output_file \o r.written
            /\ main_error' = r.error
            /\ main_pc' = IF r.error = "none" THEN "querying" ELSE "raised"
    /\ UNCHANGED <<paths_exist, transcripts_input, transcripts, walk_vars, load_vars,
                   start_from_genomic>>

\* The queries file ends: both files are closed and main returns.
EndOfQueries ==
    /\ main_pc = "querying"
    /\ main_pc' = "done"
    /\ UNCHANGED <<paths_exist, transcripts_input, queries_read, output_file, main_error,
                   transcripts, walk_vars, load_vars, start_from_genomic>>

NextMain == MainLoad \/ ReadQueryRow \/ EndOfQueries

SpecMain == InitMain /\ [][NextMain]_vars

\* ------------------------------------------------------------------ walker claims
\* The segments in the order walked, as (length, type) pairs.
Walked(ti) ==
    LET found == parsed_cigar(ti)
    IN [i \in 1..Len(found) |-> <<DigitsValue(found[i][1]), found[i][2]>>]

\* The CIGAR string is spelled exactly as its segments, with nothing skipped.
Canonical(ti) == CigarText(Walked([ti EXCEPT !.orientation = Forward])) = ti.cigar

RECURSIVE SumLengths(_, _)
\* Total length of the segments whose type is in types.
SumLengths(segs, types) ==
    IF Len(segs) = 0 THEN 0
    ELSE (IF segs[1][2] \in types THEN segs[1][1] ELSE 0) + SumLengths(Tail(segs), types)

TranscriptTypes == {"M", "X", "I"}
GenomicTypes == {"M", "X", "D", "N"}

\* Types that advance the starting coordinate system, and the opposite one.
SourceTypes(from_genomic) == IF from_genomic THEN GenomicTypes ELSE TranscriptTypes
TargetTypes(from_genomic) == IF from_genomic THEN TranscriptTypes ELSE GenomicTypes

\* End of all segments in the starting coordinate system.
SourceEnd(ti, from_genomic) ==
    (IF from_genomic THEN ti.start ELSE 0) + SumLengths(Walked(ti), SourceTypes(from_genomic))

\* The opposite position after every segment is consumed.
TargetEnd(ti, from_genomic) ==
    (IF from_genomic THEN 0 ELSE ti.start) + SumLengths(Walked(ti), TargetTypes(from_genomic))

RECURSIVE TrailingTarget(_, _)
\* Opposite-system length of the segments after the last one that advances the
\* starting coordinate system.
TrailingTarget(segs, from_genomic) ==
    IF Len(segs) = 0 THEN 0
    ELSE LET last == segs[Len(segs)]
         IN IF last[2] \in SourceTypes(from_genomic) /\ last[1] > 0 THEN 0
            ELSE (IF last[2] \in TargetTypes(from_genomic) THEN last[1] ELSE 0)
                 + TrailingTarget(SubSeq(segs, 1, Len(segs) - 1), from_genomic)

Returned == walk_pc = "returned"

\* A forward transcript spelled aM bT cM with a, b, c >= 1, T in types.
ThreeBlock(ti, types) ==
    LET segs == Walked(ti)
    IN /\ ti.orientation = Forward
       /\ Canonical(ti)
       /\ Len(segs) = 3
       /\ segs[1][2] = "M" /\ segs[2][2] \in types /\ segs[3][2] = "M"
       /\ \A i \in 1..3 : segs[i][1] >= 1

\* C1: for a fixed transcript and direction the result never decreases when the
\* requested position grows: the result for p is at most the result for p + 1, for
\* every p >= 0 (which, step by step, gives the result for p1 <= the result for p2
\* whenever p1 <= p2).
C1_Monotonic ==
    Returned =>
        converted_pos <=
            get_converted_position(transcript_info, requested_pos + 1,
                                   start_from_genomic).returned

C1_Witness ==
    /\ Returned
    /\ transcript_info.orientation = Reverse
    /\ Len(Walked(transcript_info)) = 3
    /\ start_from_genomic
    /\ requested_pos = 3
    /\ converted_pos = 1
    /\ get_converted_position(transcript_info, 4, TRUE).returned = 2

\* A forward transcript whose segments are all Match, at least one.
AllMatch(ti) ==
    LET segs == Walked(ti)
    IN /\ ti.orientation = Forward
       /\ Canonical(ti)
       /\ Len(segs) >= 1
       /\ \A i \in 1..Len(segs) : segs[i][2] = "M"

\* C2: on a forward all-Match transcript of total length n and start s, transcript
\* position p <= n converts to s + p, genomic position s + p converts to p, and
\* converting the result back gives the position asked for.
C2_RoundTrip ==
    (Returned /\ AllMatch(transcript_info)) =>
        LET n == SumLengths(Walked(transcript_info), {"M"})
            s == transcript_info.start
        IN /\ (~start_from_genomic /\ requested_pos <= n) =>
                  /\ converted_pos = s + requested_pos
                  /\ get_converted_position(transcript_info, converted_pos, TRUE).returned
                        = requested_pos
           /\ (start_from_genomic /\ requested_pos >= s /\ requested_pos <= s + n) =>
                  /\ converted_pos = requested_pos - s
                  /\ get_converted_position(transcript_info, converted_pos, FALSE).returned
                        = requested_pos

C2_Witness ==
    /\ Returned
    /\ transcript_info.cigar = <<"1", "0", "M">>
    /\ transcript_info.orientation = Forward
    /\ transcript_info.start = 1
    /\ ~start_from_genomic
    /\ requested_pos = 5
    /\ converted_pos = 6

C3Cigar == <<"4", "M", "2", "D", "6", "M">>

\* The result of the same conversion under forward orientation.
ForwardResult ==
    get_converted_position([transcript_info EXCEPT !.orientation = Forward],
                           requested_pos, start_from_genomic).returned

C3Case(p) ==
    /\ Returned
    /\ transcript_info.cigar = C3Cigar
    /\ transcript_info.orientation = Reverse
    /\ ~start_from_genomic
    /\ requested_pos = p

\* C3 as stated: for 4M2D6M, transcript position 7 converts to a different genomic
\* position under reverse orientation than under forward orientation.
C3_Original == C3Case(7) => converted_pos # ForwardResult

\* C3 amended: for 4M2D6M with start s, transcript positions 5 and 6 convert to
\* s + 5 and s + 6 under reverse orientation and to s + 7 and s + 8 under forward
\* orientation; position 7 converts to s + 9 under both.
C3_OrderSensitive ==
    /\ (C3Case(5) \/ C3Case(6)) =>
          /\ converted_pos = transcript_info.start + requested_pos
          /\ ForwardResult = transcript_info.start + requested_pos + 2
    /\ C3Case(7) =>
          /\ converted_pos = transcript_info.start + 9
          /\ ForwardResult = transcript_info.start + 9

C3_Witness == C3Case(5) /\ converted_pos # ForwardResult

\* C4 as stated: a requested position at or beyond the end of all segments in the
\* starting coordinate system returns the position reached after every segment.
C4_Original ==
    (Returned /\ requested_pos >= SourceEnd(transcript_info, start_from_genomic)) =>
        converted_pos = TargetEnd(transcript_info, start_from_genomic)

\* C4 amended: a requested position strictly beyond the end of all segments returns
\* the position reached after every segment; a requested position exactly at the end
\* returns that position less the lengths of the trailing segments that do not
\* advance the starting coordinate system, which are not consumed.
C4_ClampByExhaustion ==
    Returned =>
        /\ requested_pos > SourceEnd(transcript_info, start_from_genomic) =>
              converted_pos = TargetEnd(transcript_info, start_from_genomic)
        /\ requested_pos = SourceEnd(transcript_info, start_from_genomic) =>
              converted_pos = TargetEnd(transcript_info, start_from_genomic)
                              - TrailingTarget(Walked(transcript_info), start_from_genomic)

C4_Witness ==
    /\ Returned
    /\ Len(Walked(transcript_info)) = 3
    /\ TrailingTarget(Walked(transcript_info), start_from_genomic) = 0
    /\ requested_pos > SourceEnd(transcript_info, start_from_genomic)
    /\ converted_pos = TargetEnd(transcript_info, start_from_genomic)
    /\ converted_pos >= 3

\* C5: on a forward transcript aM bI cM with start s, every transcript position from
\* a to a + b converts to genomic position s + a.
C5_InsertionKeepsGenomic ==
    (Returned /\ ~start_from_genomic /\ ThreeBlock(transcript_info, {"I"})) =>
        LET segs == Walked(transcript_info)
        IN (requested_pos >= segs[1][1] /\ requested_pos <= segs[1][1] + segs[2][1]) =>
              converted_pos = transcript_info.start + segs[1][1]

C5_Witness ==
    /\ Returned
    /\ ~start_from_genomic
    /\ transcript_info.cigar = <<"5", "M", "3", "I", "5", "M">>
    /\ transcript_info.orientation = Forward
    /\ transcript_info.start = 0
    /\ requested_pos = 6
    /\ converted_pos = 5

\* C6: on a forward transcript aM bD cM (or bN) with start s, transcript position a
\* converts to s + a, and a + k converts to s + a + b + k for 1 <= k <= c.
C6_DeletionKeepsTranscript ==
    (Returned /\ ~start_from_genomic /\ ThreeBlock(transcript_info, {"D", "N"})) =>
        LET segs == Walked(transcript_info)
            a == segs[1][1]
            b == segs[2][1]
            c == segs[3][1]
        IN /\ requested_pos = a => converted_pos = transcript_info.start + a
           /\ (requested_pos > a /\ requested_pos <= a + c) =>
                 converted_pos = transcript_info.start + b + requested_pos

C6_Witness ==
    /\ Returned
    /\ ~start_from_genomic
    /\ transcript_info.cigar = <<"5", "M", "3", "D", "5", "M">>
    /\ transcript_info.orientation = Forward
    /\ transcript_info.start = 0
    /\ requested_pos = 6
    /\ converted_pos = 9

\* C10: on a forward transcript aM bD cM (or bN) with start s, a genomic target g
\* with s + a < g <= s + a + b moves the genomic position over the whole deletion,
\* to s + a + b, and returns transcript position a; the target s + a + b + k returns
\* a + k for 1 <= k <= c.
C10_DeletionWholeFromGenomic ==
    (Returned /\ start_from_genomic /\ ThreeBlock(transcript_info, {"D", "N"})) =>
        LET segs == Walked(transcript_info)
            s == transcript_info.start
            a == segs[1][1]
            b == segs[2][1]
            c == segs[3][1]
        IN /\ (requested_pos > s + a /\ requested_pos <= s + a + b) =>
                 /\ genomic_pos = s + a + b
                 /\ converted_pos = a
           /\ (requested_pos > s + a + b /\ requested_pos <= s + a + b + c) =>
                 converted_pos = requested_pos - s - b

C10_Witness ==
    /\ Returned
    /\ start_from_genomic
    /\ transcript_info.cigar = <<"5", "M", "3", "N", "5", "M">>
    /\ transcript_info.orientation = Forward
    /\ transcript_info.start = 1
    /\ requested_pos = 7
    /\ genomic_pos = 9
    /\ converted_pos = 5

\* ------------------------------------------------------------------ registry claims
\* The fields of a row, as the loop splits them.
Cols(row) == split(strip(row))

\* The row has a name, chromosome, start and alignment (4 or 5 fields).
HasFields(row) == Len(Cols(row)) \in {4, 5}

RowName(row) == Cols(row)[1]

RowOrientationValid(row) == Len(Cols(row)) = 4 \/ Cols(row)[5] \in {Forward, Reverse}

RowStartValid(row) == int(Cols(row)[3]).ok

\* The entry a row stands for.
RowEntry(row) ==
    [chrom |-> Cols(row)[2], start |-> int(Cols(row)[3]).value, cigar |-> Cols(row)[4],
     orientation |-> IF Len(Cols(row)) = 4 THEN Forward ELSE Cols(row)[5]]

\* The rows read without an error.
LoadedRows ==
    IF load_pc = "raised" THEN SubSeq(rows_read, 1, Len(rows_read) - 1) ELSE rows_read

LastRow == rows_read[Len(rows_read)]

\* The last row read has the name of a row loaded before it.
LastRowRepeatsName ==
    /\ Len(rows_read) >= 2
    /\ HasFields(LastRow)
    /\ \E i \in 1..(Len(rows_read) - 1) : RowName(rows_read[i]) = RowName(LastRow)

\* One entry per loaded row, holding that row's fields; no two loaded rows share a name.
OneEntryPerName ==
    /\ DOMAIN transcripts = {RowName(LoadedRows[i]) : i \in 1..Len(LoadedRows)}
    /\ \A i, j \in 1..Len(LoadedRows) :
          RowName(LoadedRows[i]) = RowName(LoadedRows[j]) => i = j
    /\ \A i \in 1..Len(LoadedRows) :
          transcripts[RowName(LoadedRows[i])] = RowEntry(LoadedRows[i])

\* C8 as stated: a row with the name of a previously loaded row makes the load fail
\* with the duplicate-transcript error, and a returned registry has exactly one entry
\* per name, holding the fields of the only row with that name.
C8_Original ==
    /\ LastRowRepeatsName => (load_pc = "raised" /\ load_error = "DuplicateTranscript")
    /\ load_pc = "returned" => OneEntryPerName

\* C8 amended: a row with the name of a previously loaded row makes the load fail,
\* with the duplicate-transcript error when its orientation and start are valid and
\* with the invalid-orientation or invalid-start error (checked first) otherwise; the
\* earlier entry is not overwritten; at every moment, and so in every returned
\* registry, there is exactly one entry per name, holding the fields of the only row
\* loaded with that name.
C8_NameUnique ==
    /\ LastRowRepeatsName =>
          /\ load_pc = "raised"
          /\ load_error =
                IF ~RowOrientationValid(LastRow) THEN "InvalidOrientation"
                ELSE IF ~RowStartValid(LastRow) THEN "InvalidStart"
                ELSE "DuplicateTranscript"
    /\ load_pc \in {"reading", "returned", "raised"} => OneEntryPerName

C8_Witness ==
    /\ load_pc = "raised"
    /\ load_error = "DuplicateTranscript"
    /\ Len(rows_read) = 3
    /\ RowName(rows_read[1]) = RowName(rows_read[3])
    /\ RowEntry(rows_read[1]) # RowEntry(rows_read[3])
    /\ transcripts[RowName(rows_read[1])] = RowEntry(rows_read[1])

\* The last row read has a start field that int() rejects.
LastRowStartInvalid ==
    /\ Len(rows_read) >= 1
    /\ HasFields(LastRow)
    /\ ~RowStartValid(LastRow)

\* C9 as stated: every transcript of a returned registry has a non-negative integer
\* start, and a row whose start is not an integer makes the load fail with the
\* invalid-start error.
C9_Original ==
    /\ load_pc = "returned" => \A n \in DOMAIN transcripts : transcripts[n].start \in Nat
    /\ LastRowStartInvalid => (load_pc = "raised" /\ load_error = "InvalidStart")

\* C9 amended: every transcript of a registry has an integer start, negative values
\* included, equal to the value of its row's start field; a row whose start is not an
\* integer makes the load fail, with the invalid-start error unless its orientation
\* field is unrecognised (then with the invalid-orientation error, checked first).
C9_StartInteger ==
    /\ load_pc \in {"reading", "returned", "raised"} =>
          \A i \in 1..Len(LoadedRows) :
             /\ RowStartValid(LoadedRows[i])
             /\ transcripts[RowName(LoadedRows[i])].start \in Int
             /\ transcripts[RowName(LoadedRows[i])].start = int(Cols(LoadedRows[i])[3]).value
    /\ LastRowStartInvalid =>
          /\ load_pc = "raised"
          /\ load_error = IF RowOrientationValid(LastRow) THEN "InvalidStart"
                          ELSE "InvalidOrientation"

C9_Witness ==
    /\ load_pc = "raised"
    /\ load_error = "InvalidStart"
    /\ Len(rows_read) = 2
    /\ Cols(rows_read[1])[3] = <<"-", "2">>
    /\ transcripts[RowName(rows_read[1])].start = 0 - 2
    /\ Cols(rows_read[2])[3] = <<"x">>

\* ------------------------------------------------------------------ driver claims
\* The row is malformed, has a non-integer position, or names no transcript.
BadQueryRow(row) ==
    \/ Len(Cols(row)) # 2
    \/ ~int(Cols(row)[2]).ok
    \/ Cols(row)[1] \notin DOMAIN transcripts

\* The output line is the one for the row: its two fields and its transcript's chromosome.
LineOfRow(line, row) ==
    LET head == join(Cols(row) \o <<transcripts[Cols(row)[1]].chrom>>) \o <<Tab>>
    IN /\ Len(line) > Len(head) + 1
       /\ SubSeq(line, 1, Len(head)) = head
       /\ line[Len(line)] = Newline
       /\ int(SubSeq(line, Len(head) + 1, Len(line) - 1)).ok

QueriesUnderWay ==
    \/ main_pc \in {"querying", "done"}
    \/ main_pc = "raised" /\ Len(queries_read) >= 1

\* C7: while the queries are read, every row before the last one read is good and has
\* its output line, in order; if the last row read is bad the run has raised an error
\* at it and nothing was written for it; if it is good the run goes on with its line
\* written. So the run aborts at the first bad row k with exactly the lines of rows
\* 1..k-1 written, and no bad row is passed over.
C7_FailFast ==
    QueriesUnderWay =>
        LET n == Len(queries_read)
        IN /\ \A i \in 1..(n - 1) : ~BadQueryRow(queries_read[i])
           /\ (n >= 1 /\ BadQueryRow(queries_read[n])) =>
                 /\ main_pc = "raised"
                 /\ main_error \in {"MalformedQueryRow", "InvalidRequestedPosition",
                                    "UnknownTranscript"}
                 /\ Len(output_file) = n - 1
           /\ (n >= 1 /\ ~BadQueryRow(queries_read[n])) =>
                 /\ main_pc \in {"querying", "done"}
                 /\ main_error = "none"
                 /\ Len(output_file) = n
           /\ n = 0 => output_file = <<>>
           /\ \A i \in 1..Len(output_file) : LineOfRow(output_file[i], queries_read[i])

C7_Witness ==
    /\ main_pc = "raised"
    /\ main_error = "UnknownTranscript"
    /\ DOMAIN transcripts = {NameA}
    /\ Len(queries_read) = 3
    /\ Len(output_file) = 2
    /\ Cols(queries_read[3])[1] = NameB

====
